---- MODULE Spec2Model ----
(***************************************************************************)
(* Model of ca.py: the session addressing, context assembly and turn       *)
(* recording of the command-line chat client.                              *)
(*                                                                         *)
(* Text is modelled as a sequence of one-character strings, so that        *)
(* concatenation, trimming and decimal formatting are computed rather      *)
(* than assumed.  The MongoDB collection is one sequence of documents in   *)
(* insertion order, holding both turn documents and session_info           *)
(* documents.                                                              *)
(***************************************************************************)
EXTENDS Integers, Sequences, FiniteSets, TLC

VARIABLES
    store,                 \* the 'conversations' collection, in insertion order
    now,                   \* wall clock, whole seconds
    pc,                    \* position of each invocation in main()
    args,                  \* parsed command line: timestamp, session, prompt
    GPT_MODEL,             \* module-level model name of the invocation
    options_timestamp,     \* options.timestamp
    session_info,          \* result of find_one in get_or_create_session_timestamp
    conversation_context,  \* result of get_conversation_context
    request,               \* the request given to chat.completions.create, if any
    response,              \* the stripped reply
    error                  \* why the invocation terminated early, if it did

vars == <<store, now, pc, args, GPT_MODEL, options_timestamp, session_info,
          conversation_context, request, response, error>>

-----------------------------------------------------------------------------
(* Bounds *)

MaxTurns == 3

MaxClock == 10

MaxOverlap == 1

Procs == {1, 2}

-----------------------------------------------------------------------------
(* Values *)

\* Python's None; no text equals it, since text holds one-character strings.
None == <<"<None>">>

\* Python truthiness of an optional string.
Truthy(s) == s # None /\ s # <<>>

Digits == <<"0", "1", "2", "3", "4", "5", "6", "7", "8", "9">>

RECURSIVE str(_)
\* str(int(...)): decimal digits, most significant first.
str(n) == IF n < 10 THEN <<Digits[n + 1]>>
          ELSE str(n \div 10) \o <<Digits[(n % 10) + 1]>>

\* new_timestamp = str(int(datetime.timestamp(datetime.now())))
new_timestamp(clock) == str(clock)

Whitespace == {" ", "\t", "\n"}

RECURSIVE lstrip(_)
lstrip(s) == IF s # <<>> /\ Head(s) \in Whitespace THEN lstrip(Tail(s)) ELSE s

RECURSIVE rstrip(_)
rstrip(s) == IF s # <<>> /\ s[Len(s)] \in Whitespace
             THEN rstrip(SubSeq(s, 1, Len(s) - 1)) ELSE s

\* str.strip()
strip(s) == rstrip(lstrip(s))

\* The static mapping of model name to maximum tokens.
GPT_MODEL_MAX_TOKENS == [m \in {"gpt-4", "gpt-4-1106-preview"} |->
                            IF m = "gpt-4" THEN 6000 ELSE 4000]

DefaultMaxTokens == 6000

\* The default system message (its text is not modelled).
system_message == <<"S">>

-----------------------------------------------------------------------------
(* Inputs *)

\* Values of --timestamp: absent, empty, an id the clock also mints, another id.
TimestampArgs == {None, <<>>, str(MaxClock - 1), <<"4", "2">>}

\* The last unknown argument, or None when there is none.
PromptArgs == {None, <<"H", "i">>}

\* message.content as returned by the API, before strip().
Replies == {<<"Y", "o">>, <<" ", "b", "\n">>}

\* Values of DEFAULT_GPT_MODEL in the environment ("" when unset).
EnvModels == {"", "gpt-4-1106-preview", "gpt-3.5-turbo"}

-----------------------------------------------------------------------------
(* The store *)

IsSessionInfo(d) == "type" \in DOMAIN d /\ d.type = "session_info"

IsTurn(d) == "timestamp" \in DOMAIN d

\* collection.find({"timestamp": ts}): matching documents in natural order.
find_timestamp(st, ts) ==
    SelectSeq(st, LAMBDA d : "timestamp" \in DOMAIN d /\ d.timestamp = ts)

\* collection.find_one({"type": "session_info"}): <<>> for None, else <<doc>>.
find_one_session_info(st) ==
    LET hits == SelectSeq(st, IsSessionInfo)
    IN  IF hits = <<>> THEN <<>> ELSE <<Head(hits)>>

RECURSIVE FirstIndex(_, _)
FirstIndex(st, i) == IF i > Len(st) THEN 0
                     ELSE IF IsSessionInfo(st[i]) THEN i
                     ELSE FirstIndex(st, i + 1)

\* collection.delete_one({"type": "session_info"}): removes the first match.
delete_one_session_info(st) ==
    LET i == FirstIndex(st, 1)
    IN  IF i = 0 THEN st
        ELSE SubSeq(st, 1, i - 1) \o SubSeq(st, i + 1, Len(st))

\* collection.insert_one(doc)
insert_one(st, doc) == Append(st, doc)

RECURSIVE ContextLoop_NewestFirst(_, _)
\* Variant: each record is put in front of what was gathered so far.
ContextLoop_NewestFirst(cursor, acc) ==
    IF cursor = <<>> THEN acc
    ELSE ContextLoop_NewestFirst(Tail(cursor),
                                 Head(cursor).user_input \o Head(cursor).gpt_response \o acc)

RECURSIVE ContextLoop(_, _)
\* for record in cursor: conversation_context += user_input + gpt_response
ContextLoop(cursor, acc) ==
    IF cursor = <<>> THEN acc
    ELSE ContextLoop(Tail(cursor),
                     acc \o Head(cursor).user_input \o Head(cursor).gpt_response)

get_conversation_context(ts, st) ==
    IF Truthy(ts) THEN ContextLoop(find_timestamp(st, ts), <<>>) ELSE <<>>

\* The message list built by get_gpt_response.
Messages(conversation, prompt) ==
    IF conversation # <<>>
    THEN << [role |-> "system", content |-> system_message],
            [role |-> "user", content |-> conversation],
            [role |-> "user", content |-> prompt] >>
    ELSE << [role |-> "system", content |-> system_message],
            [role |-> "user", content |-> prompt] >>

-----------------------------------------------------------------------------
(* Initial state: an empty collection and no invocation running *)

NoArgs == [timestamp |-> None, session |-> FALSE, prompt |-> None]

Init ==
    /\ store = <<>>
    /\ now = MaxClock - 1
    /\ pc = [p \in Procs |-> "idle"]
    /\ args = [p \in Procs |-> NoArgs]
    /\ GPT_MODEL = [p \in Procs |-> ""]
    /\ options_timestamp = [p \in Procs |-> None]
    /\ session_info = [p \in Procs |-> <<>>]
    /\ conversation_context = [p \in Procs |-> <<>>]
    /\ request = [p \in Procs |-> <<>>]
    /\ response = [p \in Procs |-> <<>>]
    /\ error = [p \in Procs |-> ""]

-----------------------------------------------------------------------------
(* Steps of one invocation *)

\* Module load and argument parsing, up to the prompt check.
ParseArgs(p, ts, session, prompt, env, api_key) ==
    /\ pc[p] = "idle"
    /\ IF ~api_key
       THEN \* args.api_key: the option is declared as "-k, --api_key", so the
            \* namespace has no such attribute
            /\ pc' = [pc EXCEPT ![p] = "exited"]
            /\ error' = [error EXCEPT ![p] = "AttributeError"]
            /\ UNCHANGED <<args, GPT_MODEL, options_timestamp>>
       ELSE IF prompt = None
       THEN /\ pc' = [pc EXCEPT ![p] = "exited"]
            /\ error' = [error EXCEPT ![p] = "Prompt is required."]
            /\ UNCHANGED <<args, GPT_MODEL, options_timestamp>>
       ELSE /\ pc' = [pc EXCEPT ![p] = "resolve"]
            /\ args' = [args EXCEPT ![p] =
                          [timestamp |-> ts, session |-> session, prompt |-> prompt]]
            /\ GPT_MODEL' = [GPT_MODEL EXCEPT ![p] = IF env = "" THEN "gpt-4" ELSE env]
            /\ options_timestamp' = [options_timestamp EXCEPT ![p] = ts]
            /\ UNCHANGED error
    /\ UNCHANGED <<store, now, session_info, conversation_context, request, response>>

\* An invocation started while no other invocation is running.
Invoke(p) ==
    /\ \A q \in Procs : pc[q] = "idle"
    /\ Len(SelectSeq(store, IsTurn)) < MaxTurns
    /\ \E ts \in TimestampArgs, session \in BOOLEAN, prompt \in PromptArgs,
          env \in EnvModels, api_key \in BOOLEAN :
          ParseArgs(p, ts, session, prompt, env, api_key)

\* if options.session: ... find_one({"type": "session_info"})
FindSessionInfo(p) ==
    /\ pc[p] = "resolve"
    /\ IF args[p].session
       THEN /\ session_info' = [session_info EXCEPT ![p] = find_one_session_info(store)]
            /\ pc' = [pc EXCEPT ![p] = "got_info"]
       ELSE /\ pc' = [pc EXCEPT ![p] = "context"]
            /\ UNCHANGED session_info
    /\ UNCHANGED <<store, now, args, GPT_MODEL, options_timestamp,
                   conversation_context, request, response, error>>

\* Variant: the pointer is inserted whatever the lookup found.
UseOrCreateSession_NoLookup(p) ==
    /\ pc[p] = "got_info"
    /\ store' = insert_one(store, [type |-> "session_info",
                                   latest_session_timestamp |-> new_timestamp(now)])
    /\ options_timestamp' = [options_timestamp EXCEPT ![p] = new_timestamp(now)]
    /\ pc' = [pc EXCEPT ![p] = "context"]
    /\ UNCHANGED <<now, args, GPT_MODEL, session_info, conversation_context,
                   request, response, error>>

\* Variant: the insert is conditional on the store as it is at the insert
\* (an upsert), not on the earlier lookup.
UseOrCreateSession_Upsert(p) ==
    /\ pc[p] = "got_info"
    /\ IF session_info[p] # <<>>
       THEN /\ options_timestamp' = [options_timestamp EXCEPT ![p] =
                                        session_info[p][1].latest_session_timestamp]
            /\ UNCHANGED store
       ELSE IF find_one_session_info(store) # <<>>
       THEN /\ options_timestamp' = [options_timestamp EXCEPT ![p] =
                  find_one_session_info(store)[1].latest_session_timestamp]
            /\ UNCHANGED store
       ELSE /\ store' = insert_one(store, [type |-> "session_info",
                                           latest_session_timestamp |-> new_timestamp(now)])
            /\ options_timestamp' = [options_timestamp EXCEPT ![p] = new_timestamp(now)]
    /\ pc' = [pc EXCEPT ![p] = "context"]
    /\ UNCHANGED <<now, args, GPT_MODEL, session_info, conversation_context,
                   request, response, error>>

\* The rest of get_or_create_session_timestamp and the assignment to options.timestamp.
UseOrCreateSession(p) ==
    /\ pc[p] = "got_info"
    /\ IF session_info[p] # <<>>
       THEN /\ options_timestamp' = [options_timestamp EXCEPT ![p] =
                                        session_info[p][1].latest_session_timestamp]
            /\ UNCHANGED store
       ELSE /\ store' = insert_one(store, [type |-> "session_info",
                                           latest_session_timestamp |-> new_timestamp(now)])
            /\ options_timestamp' = [options_timestamp EXCEPT ![p] = new_timestamp(now)]
    /\ pc' = [pc EXCEPT ![p] = "context"]
    /\ UNCHANGED <<now, args, GPT_MODEL, session_info, conversation_context,
                   request, response, error>>

\* Variant: the id is minted before the context is assembled.
GetContext_MintFirst(p) ==
    /\ pc[p] = "context"
    /\ conversation_context' = [conversation_context EXCEPT ![p] =
          get_conversation_context(IF Truthy(options_timestamp[p])
                                   THEN options_timestamp[p]
                                   ELSE new_timestamp(now), store)]
    /\ pc' = [pc EXCEPT ![p] = "stamp"]
    /\ UNCHANGED <<store, now, args, GPT_MODEL, options_timestamp, session_info,
                   request, response, error>>

\* conversation_context = get_conversation_context(options)
GetContext(p) ==
    /\ pc[p] = "context"
    /\ conversation_context' = [conversation_context EXCEPT ![p] =
                                   get_conversation_context(options_timestamp[p], store)]
    /\ pc' = [pc EXCEPT ![p] = "stamp"]
    /\ UNCHANGED <<store, now, args, GPT_MODEL, options_timestamp, session_info,
                   request, response, error>>

\* Variant: the id is always minted from the clock.
Stamp_AlwaysMint(p) ==
    /\ pc[p] = "stamp"
    /\ options_timestamp' = [options_timestamp EXCEPT ![p] = new_timestamp(now)]
    /\ pc' = [pc EXCEPT ![p] = "request"]
    /\ UNCHANGED <<store, now, args, GPT_MODEL, session_info, conversation_context,
                   request, response, error>>

\* if options.timestamp: ... else: options.timestamp = str(int(now))
Stamp(p) ==
    /\ pc[p] = "stamp"
    /\ options_timestamp' = [options_timestamp EXCEPT ![p] =
                                IF Truthy(@) THEN @ ELSE new_timestamp(now)]
    /\ pc' = [pc EXCEPT ![p] = "request"]
    /\ UNCHANGED <<store, now, args, GPT_MODEL, session_info, conversation_context,
                   request, response, error>>

\* get_gpt_response: the max-token lookup, then the completion call.
GetGptResponse(p) ==
    /\ pc[p] = "request"
    /\ IF GPT_MODEL[p] \notin DOMAIN GPT_MODEL_MAX_TOKENS
       THEN \* GPT_MODEL_MAX_TOKENS[model_engine] raises KeyError
            /\ pc' = [pc EXCEPT ![p] = "crashed"]
            /\ error' = [error EXCEPT ![p] = "KeyError"]
            /\ UNCHANGED <<request, response>>
       ELSE LET looked_up == GPT_MODEL_MAX_TOKENS[GPT_MODEL[p]]
                MAX_TOKENS == IF looked_up = 0 THEN DefaultMaxTokens ELSE looked_up
            IN  /\ request' = [request EXCEPT ![p] =
                                 << [model |-> GPT_MODEL[p],
                                     messages |-> Messages(conversation_context[p],
                                                           args[p].prompt),
                                     max_tokens |-> MAX_TOKENS] >>]
                /\ \/ \E content \in Replies :
                         /\ response' = [response EXCEPT ![p] = strip(content)]
                         /\ pc' = [pc EXCEPT ![p] = "record"]
                         /\ UNCHANGED error
                   \/ /\ pc' = [pc EXCEPT ![p] = "crashed"]
                      /\ error' = [error EXCEPT ![p] = "UpstreamError"]
                      /\ UNCHANGED response
    /\ UNCHANGED <<store, now, args, GPT_MODEL, options_timestamp, session_info,
                   conversation_context>>

RECURSIVE ReplaceTurn(_, _, _)
\* st with the first turn of doc's session, from index i on, replaced by doc.
ReplaceTurn(st, doc, i) ==
    IF i > Len(st) THEN Append(st, doc)
    ELSE IF IsTurn(st[i]) /\ st[i].timestamp = doc.timestamp
    THEN [st EXCEPT ![i] = doc]
    ELSE ReplaceTurn(st, doc, i + 1)

\* Variant: the turn is written with replace_one(..., upsert=True) on its timestamp.
DidReceiveResponse_Upsert(p) ==
    /\ pc[p] = "record"
    /\ Len(SelectSeq(store, IsTurn)) < MaxTurns
    /\ store' = ReplaceTurn(store, [timestamp |-> options_timestamp[p],
                                    user_input |-> args[p].prompt,
                                    gpt_response |-> response[p]], 1)
    /\ pc' = [pc EXCEPT ![p] = "cleanup"]
    /\ UNCHANGED <<now, args, GPT_MODEL, options_timestamp, session_info,
                   conversation_context, request, response, error>>

\* did_receive_response: the insert of the turn document, then the output file.
DidReceiveResponse(p) ==
    /\ pc[p] = "record"
    /\ Len(SelectSeq(store, IsTurn)) < MaxTurns
    /\ store' = insert_one(store, [timestamp |-> options_timestamp[p],
                                   user_input |-> args[p].prompt,
                                   gpt_response |-> response[p]])
    /\ \/ /\ pc' = [pc EXCEPT ![p] = "cleanup"]
          /\ UNCHANGED error
       \/ \* open(options.output, "a") raises: main() never reaches its cleanup
          /\ pc' = [pc EXCEPT ![p] = "crashed"]
          /\ error' = [error EXCEPT ![p] = "FileError"]
    /\ UNCHANGED <<now, args, GPT_MODEL, options_timestamp, session_info,
                   conversation_context, request, response>>

\* Variant: the pointer is cleared after every invocation.
ReleaseSession_Always(p) ==
    /\ pc[p] = "cleanup"
    /\ store' = delete_one_session_info(store)
    /\ pc' = [pc EXCEPT ![p] = "done"]
    /\ UNCHANGED <<now, args, GPT_MODEL, options_timestamp, session_info,
                   conversation_context, request, response, error>>

\* Variant: the pointer is cleared only when --session was not passed.
ReleaseSession_NotSessionOnly(p) ==
    /\ pc[p] = "cleanup"
    /\ store' = IF ~args[p].session THEN delete_one_session_info(store) ELSE store
    /\ pc' = [pc EXCEPT ![p] = "done"]
    /\ UNCHANGED <<now, args, GPT_MODEL, options_timestamp, session_info,
                   conversation_context, request, response, error>>

\* Variant: 'and' in place of 'or' in the condition.
ReleaseSession_And(p) ==
    /\ pc[p] = "cleanup"
    /\ store' = IF ~args[p].session /\ Truthy(args[p].timestamp)
                THEN delete_one_session_info(store)
                ELSE store
    /\ pc' = [pc EXCEPT ![p] = "done"]
    /\ UNCHANGED <<now, args, GPT_MODEL, options_timestamp, session_info,
                   conversation_context, request, response, error>>

\* if not options.session or args.timestamp: clear_latest_session_timestamp()
ReleaseSession(p) ==
    /\ pc[p] = "cleanup"
    /\ store' = IF ~args[p].session \/ Truthy(args[p].timestamp)
                THEN delete_one_session_info(store)
                ELSE store
    /\ pc' = [pc EXCEPT ![p] = "done"]
    /\ UNCHANGED <<now, args, GPT_MODEL, options_timestamp, session_info,
                   conversation_context, request, response, error>>

\* The process ends; nothing of it survives but the store.
Exit(p) ==
    /\ pc[p] \in {"done", "exited", "crashed"}
    /\ pc' = [pc EXCEPT ![p] = "idle"]
    /\ args' = [args EXCEPT ![p] = NoArgs]
    /\ GPT_MODEL' = [GPT_MODEL EXCEPT ![p] = ""]
    /\ options_timestamp' = [options_timestamp EXCEPT ![p] = None]
    /\ session_info' = [session_info EXCEPT ![p] = <<>>]
    /\ conversation_context' = [conversation_context EXCEPT ![p] = <<>>]
    /\ request' = [request EXCEPT ![p] = <<>>]
    /\ response' = [response EXCEPT ![p] = <<>>]
    /\ error' = [error EXCEPT ![p] = ""]
    /\ UNCHANGED <<store, now>>

\* A second of wall-clock time passes.
Tick ==
    /\ now < MaxClock
    /\ now' = now + 1
    /\ UNCHANGED <<store, pc, args, GPT_MODEL, options_timestamp, session_info,
                   conversation_context, request, response, error>>

Step(p) ==
    \/ FindSessionInfo(p)
    \/ UseOrCreateSession(p)
    \/ GetContext(p)
    \/ Stamp(p)
    \/ GetGptResponse(p)
    \/ DidReceiveResponse(p)
    \/ ReleaseSession(p)
    \/ Exit(p)

\* Invocations run one after another.
Next ==
    \/ \E p \in Procs : Invoke(p)
    \/ \E p \in Procs : Step(p)
    \/ Tick

Spec == Init /\ [][Next]_vars

\* A bare --session invocation started as a separate process while another
\* bare --session invocation is still running.  Overlap is explored from
\* stores of fewer than MaxOverlap documents and for models of the mapping.
InvokeConcurrent(p) ==
    /\ \E q \in Procs \ {p} :
          /\ pc[q] \notin {"idle", "exited"}
          /\ args[q].session
          /\ args[q].timestamp = None
          /\ GPT_MODEL[q] \in DOMAIN GPT_MODEL_MAX_TOKENS
    /\ Len(store) < MaxOverlap
    /\ \E prompt \in PromptArgs \ {None},
          env \in {e \in EnvModels : e = "" \/ e \in DOMAIN GPT_MODEL_MAX_TOKENS} :
          ParseArgs(p, None, TRUE, prompt, env, TRUE)

\* Invocations may overlap; their store operations interleave.
NextConcurrent ==
    \/ Next
    \/ \E p \in Procs : InvokeConcurrent(p)

SpecConcurrent == Init /\ [][NextConcurrent]_vars

-----------------------------------------------------------------------------
(* Vocabulary of the properties *)

\* The session_info documents of a store, in insertion order.
Pointers(st) == SelectSeq(st, IsSessionInfo)

\* The turn documents of a store, in insertion order.
Turns(st) == SelectSeq(st, IsTurn)

\* The invocation passed --session and no --timestamp.
Bare(p) == pc[p] \notin {"idle", "exited"} /\ args[p].session /\ args[p].timestamp = None

\* The invocation passed neither --session nor --timestamp.
Plain(p) == pc[p] \notin {"idle", "exited"} /\ ~args[p].session /\ args[p].timestamp = None

\* The invocation passed --timestamp (with any value) and no --session.
Pinned(p) == pc[p] \notin {"idle", "exited"} /\ ~args[p].session /\ args[p].timestamp # None

\* The invocation passed both --session and --timestamp (with any value).
SessionPinned(p) == pc[p] \notin {"idle", "exited"} /\ args[p].session /\ args[p].timestamp # None

\* The turn document this invocation records.
OwnTurn(p) == [timestamp |-> options_timestamp[p],
               user_input |-> args[p].prompt,
               gpt_response |-> response[p]]

RECURSIVE ExpectedContext(_, _, _)
\* u1 r1 u2 r2 ... of the turns of session ts among st[i], st[i+1], ...
ExpectedContext(ts, st, i) ==
    IF i > Len(st) THEN <<>>
    ELSE (IF IsTurn(st[i]) /\ st[i].timestamp = ts
          THEN st[i].user_input \o st[i].gpt_response
          ELSE <<>>) \o ExpectedContext(ts, st, i + 1)

\* Every id an invocation can carry: the --timestamp values and the minted ones.
SessionIds == (TimestampArgs \ {None}) \cup {str(c) : c \in (MaxClock - 1)..MaxClock}

-----------------------------------------------------------------------------
(* Properties *)

\* C1: in a bare --session invocation the pointer lookup either finds no
\* pointer, and then the id minted from the clock is stored as the only
\* pointer and used, or finds one, and then that id is used and the store
\* is left alone; from then on no step of the invocation changes the
\* pointer, and the turn it records carries the pointer's id.  Hence
\* consecutive completed bare --session invocations share one id.
C1_SessionContinuation ==
    [][ \A p \in Procs : Bare(p) =>
          /\ (pc[p] = "got_info" /\ pc'[p] = "context") =>
                IF Pointers(store) = <<>>
                THEN /\ Pointers(store') =
                           << [type |-> "session_info",
                               latest_session_timestamp |-> str(now)] >>
                     /\ options_timestamp'[p] = str(now)
                ELSE /\ store' = store
                     /\ options_timestamp'[p] =
                           Pointers(store)[1].latest_session_timestamp
          /\ (pc[p] \in {"context", "stamp", "request", "record", "cleanup",
                         "done", "crashed"}) =>
                /\ Len(Pointers(store)) = 1
                /\ Pointers(store') = Pointers(store)
                /\ options_timestamp[p] = Pointers(store)[1].latest_session_timestamp
          /\ (pc[p] = "record" /\ pc'[p] = "cleanup") =>
                /\ Turns(store') = Append(Turns(store), OwnTurn(p))
                /\ store'[Len(store')].timestamp =
                      Pointers(store')[1].latest_session_timestamp ]_vars

\* C1 witness: the second of two consecutive bare --session invocations
\* has completed in a later second than the first; both turns carry the
\* id the first one minted, which is still the pointer's.
C1_Witness ==
    \E p \in Procs :
       /\ pc[p] = "done" /\ Bare(p)
       /\ session_info[p] # <<>>
       /\ now = MaxClock
       /\ store = << [type |-> "session_info",
                      latest_session_timestamp |-> str(MaxClock - 1)],
                     [timestamp |-> str(MaxClock - 1), user_input |-> <<"H", "i">>,
                      gpt_response |-> <<"Y", "o">>],
                     [timestamp |-> str(MaxClock - 1), user_input |-> <<"H", "i">>,
                      gpt_response |-> <<"b">>] >>

\* C2 as stated, already for non-empty X: after a completed invocation
\* with both --session and --timestamp X the pointer is what the
\* invocation's lookup found at its start: absent if absent, the same
\* document if present.
C2_PointerUntouched ==
    \A p \in Procs :
       pc[p] = "done" /\ SessionPinned(p) /\ args[p].timestamp # <<>> =>
          find_one_session_info(store) = session_info[p]

\* C2 amended: after a completed invocation with both --session and a
\* non-empty --timestamp X no pointer is stored, whether or not one was
\* stored before; the turn was recorded under the pointer's id, not X.
C2_PointerReleased ==
    \A p \in Procs :
       pc[p] = "done" /\ SessionPinned(p) /\ args[p].timestamp # <<>> =>
          /\ Pointers(store) = <<>>
          /\ session_info[p] # <<>> =>
                options_timestamp[p] = session_info[p][1].latest_session_timestamp

\* C2 witness: such an invocation completed after finding a stored pointer
\* whose id differs from X.
C2_Witness ==
    \E p \in Procs :
       /\ pc[p] = "done" /\ SessionPinned(p)
       /\ args[p].timestamp = <<"4", "2">>
       /\ session_info[p] # <<>>
       /\ Turns(store) # <<>>

\* C3 as stated: after a completed invocation a pointer is stored if and
\* only if the invocation passed --session and no --timestamp.
C3_PointerIffBare ==
    \A p \in Procs :
       pc[p] = "done" =>
          (Pointers(store) # <<>> <=> (args[p].session /\ args[p].timestamp = None))

\* C3 amended: after a completed invocation a pointer is stored if and only
\* if the invocation passed --session and no non-empty --timestamp.
C3_PointerIffSessionUnpinned ==
    \A p \in Procs :
       pc[p] = "done" =>
          /\ (~args[p].session \/ Truthy(args[p].timestamp)) => Pointers(store) = <<>>
          /\ Len(Pointers(store)) = 1 <=> (args[p].session /\ ~Truthy(args[p].timestamp))
          /\ Len(Pointers(store)) <= 1

\* C3 witness: a completed --session invocation with a non-empty
\* --timestamp found a pointer at its start, and none is stored now.
C3_Witness ==
    \E p \in Procs :
       /\ pc[p] = "done" /\ args[p].session
       /\ args[p].timestamp = str(MaxClock - 1)
       /\ session_info[p] # <<>>
       /\ Pointers(store) = <<>>

\* C4: a plain invocation assembles no context and sends none, whatever
\* turns are stored; it mints its id from the clock when it stamps, records
\* its turn under an id so minted, never inserts a pointer, and once it has
\* completed no pointer is stored.
C4_PlainInvocation ==
    /\ [](\A p \in Procs : Plain(p) =>
            /\ conversation_context[p] = <<>>
            /\ request[p] # <<>> =>
                  request[p][1].messages =
                     << [role |-> "system", content |-> system_message],
                        [role |-> "user", content |-> args[p].prompt] >>
            /\ pc[p] = "done" => Pointers(store) = <<>>)
    /\ [][ \A p \in Procs : Plain(p) =>
             /\ (pc[p] = "stamp" /\ pc'[p] = "request") =>
                   options_timestamp'[p] = str(now)
             /\ (pc[p] = "record" /\ pc'[p] = "cleanup") =>
                   /\ store' = Append(store, OwnTurn(p))
                   /\ store'[Len(store')].timestamp
                         \in {str(c) : c \in (MaxClock - 1)..now}
             /\ Len(Pointers(store')) <= Len(Pointers(store))
             /\ \A i \in 1..Len(Pointers(store')) :
                   \E j \in 1..Len(Pointers(store)) :
                      Pointers(store')[i] = Pointers(store)[j] ]_vars

\* C4 witness: a plain invocation completed although a turn with the very
\* id it minted was already stored; it sent system message and prompt only.
C4_Witness ==
    \E p \in Procs :
       /\ pc[p] = "done" /\ Plain(p)
       /\ Len(find_timestamp(store, options_timestamp[p])) = 2
       /\ Len(request[p][1].messages) = 2

\* C5 as stated: for an invocation with --timestamp X and no --session,
\* for every X, the id in use is X, the context is that of the turns of
\* session X, and the turn is recorded under X.
C5_PinnedIdUsed ==
    \A p \in Procs :
       Pinned(p) =>
          /\ pc[p] \in {"request", "record", "cleanup", "done", "crashed"} =>
                options_timestamp[p] = args[p].timestamp
          /\ pc[p] \in {"stamp", "request", "record"} =>
                conversation_context[p] = ExpectedContext(args[p].timestamp, store, 1)
          /\ pc[p] \in {"cleanup", "done"} =>
                /\ Turns(store)[Len(Turns(store))] = OwnTurn(p)
                /\ Turns(store)[Len(Turns(store))].timestamp = args[p].timestamp

\* C5 amended: the same for every non-empty X.
C5_NonEmptyPinnedIdUsed ==
    \A p \in Procs :
       Pinned(p) /\ args[p].timestamp # <<>> =>
          /\ options_timestamp[p] = args[p].timestamp
          /\ pc[p] \in {"stamp", "request", "record"} =>
                conversation_context[p] = ExpectedContext(args[p].timestamp, store, 1)
          /\ pc[p] \in {"record", "crashed"} /\ request[p] # <<>>
                /\ error[p] # "FileError" =>
                request[p][1].messages =
                   Messages(ExpectedContext(args[p].timestamp, store, 1), args[p].prompt)
          /\ pc[p] \in {"cleanup", "done"} =>
                /\ Turns(store)[Len(Turns(store))] = OwnTurn(p)
                /\ Turns(store)[Len(Turns(store))].timestamp = args[p].timestamp

\* C5 witness: an invocation pinned to a non-empty X that no invocation
\* minted has recorded its turn under X, after sending the earlier turn of
\* X as context.
C5_Witness ==
    \E p \in Procs :
       /\ pc[p] = "cleanup" /\ Pinned(p)
       /\ args[p].timestamp = <<"4", "2">>
       /\ conversation_context[p] # <<>>
       /\ Len(find_timestamp(store, <<"4", "2">>)) = 2

\* C6: for every session id and every store content, the assembled context
\* is the concatenation, over the turns of exactly that id in insertion
\* order, of user_input followed by gpt_response, with no separator; other
\* sessions' turns and the session_info document contribute nothing; a
\* session without turns yields the empty text; one turn ("Hi","Yo") under
\* "42" yields "HiYo".
C6_ContextAssembly ==
    /\ \A ts \in SessionIds \ {<<>>} :
          get_conversation_context(ts, store) = ExpectedContext(ts, store, 1)
    /\ \A p \in Procs :
          pc[p] = "stamp" /\ Truthy(options_timestamp[p]) =>
             conversation_context[p] = ExpectedContext(options_timestamp[p], store, 1)
    /\ \A ts \in SessionIds :
          find_timestamp(store, ts) = <<>> => get_conversation_context(ts, store) = <<>>
    /\ find_timestamp(store, <<"4", "2">>) =
          << [timestamp |-> <<"4", "2">>, user_input |-> <<"H", "i">>,
              gpt_response |-> <<"Y", "o">>] >>
       => get_conversation_context(<<"4", "2">>, store) = <<"H", "i", "Y", "o">>

\* C6 witness: an invocation has assembled the context of two stored turns
\* of its session, whose replies differ.
C6_Witness ==
    \E p \in Procs :
       /\ pc[p] = "stamp"
       /\ Len(find_timestamp(store, options_timestamp[p])) = 2
       /\ find_timestamp(store, options_timestamp[p])[1].gpt_response
             # find_timestamp(store, options_timestamp[p])[2].gpt_response
       /\ Len(conversation_context[p]) >= 4

\* C7: in every state reached by invocations run one after another,
\* failed ones included, the store holds at most one session_info document.
C7_PointerSingleton == Len(Pointers(store)) <= 1

\* C7 witness: a --session invocation found the stored pointer, did not
\* insert another, and then failed in the completion call.
C7_Witness ==
    \E p \in Procs :
       /\ pc[p] = "crashed"
       /\ args[p].session
       /\ session_info[p] # <<>>
       /\ Len(Pointers(store)) = 1

\* C8: a step changes the stored turn sequence either not at all or by
\* appending exactly the one turn of an invocation whose completion call
\* returned; an invocation that exited, or failed in the completion call,
\* is never at that step.
C8_TurnLogAppendOnly ==
    [][ \/ Turns(store') = Turns(store)
        \/ \E p \in Procs :
              /\ pc[p] = "record" /\ pc'[p] \in {"cleanup", "crashed"}
              /\ request[p] # <<>> /\ error[p] = ""
              /\ Turns(store') = Append(Turns(store), OwnTurn(p)) ]_vars

\* C8 witness: a second turn has just been appended after an earlier one.
C8_Witness ==
    \E p \in Procs :
       /\ pc[p] = "cleanup"
       /\ Len(Turns(store)) = 2
       /\ Turns(store)[2] = OwnTurn(p)

\* C9: the request carries the mapped maximum when the model is in the
\* mapping and 6000 when it is not; an unknown model never ends the
\* invocation before the request is sent.
C9_MaxTokenLookup ==
    \A p \in Procs :
       pc[p] \in {"record", "cleanup", "done", "crashed"} =>
          /\ request[p] # <<>>
          /\ request[p][1].max_tokens =
                IF GPT_MODEL[p] \in DOMAIN GPT_MODEL_MAX_TOKENS
                THEN GPT_MODEL_MAX_TOKENS[GPT_MODEL[p]]
                ELSE 6000

\* C10: an invocation that observed no pointer inserts one, whatever the
\* store holds by then; so of two overlapping --session invocations that
\* both looked before either inserted, each inserts its own pointer.
C10_StaleLookupInserts ==
    [][ \A p \in Procs :
          (pc[p] = "got_info" /\ pc'[p] = "context" /\ session_info[p] = <<>>) =>
             /\ Len(Pointers(store')) = Len(Pointers(store)) + 1
             /\ options_timestamp'[p] = str(now)
             /\ store'[Len(store')].latest_session_timestamp = str(now) ]_vars

\* C10 witness: two pointers with different ids are stored, and the two
\* overlapping invocations have tagged their turns with different ids.
C10_Witness ==
    /\ Len(Pointers(store)) = 2
    /\ Pointers(store)[1] # Pointers(store)[2]
    /\ \A p \in Procs : pc[p] \in {"cleanup", "done"} /\ Bare(p)
    /\ \E p, q \in Procs : options_timestamp[p] # options_timestamp[q]
    /\ Len(Turns(store)) = 2
    /\ Turns(store)[1].timestamp # Turns(store)[2].timestamp

====
